---- MODULE Spec2Model ----
(***************************************************************************)
(* A model of the db_api resource-access layer: the generic CRUD engine    *)
(* (app/crud.py), the user and item routes built on it (app/routes.py),    *)
(* the table definitions (app/models.py) and the request schemas           *)
(* (app/schemas.py).  Every request runs on its own worker with its own    *)
(* session; one step of a worker is one database round trip (a SELECT, or  *)
(* the flush and COMMIT of one unit of work), so the steps of concurrent   *)
(* requests interleave exactly where the store lets them.                  *)
(***************************************************************************)
EXTENDS Integers, Sequences, FiniteSets, TLC

VARIABLES
    db,           \* db[e][id]: the row stored under the primary key id of table e
    clock,        \* what func.now() evaluates to in the store's next statement
    req,          \* req[w]: the request worker w is serving, and how far it got
    started,      \* the number of requests accepted so far
    updatesDone,  \* history: what the update requests committed on row id of table e
                  \* did, or that the row was deleted and its id not assigned again
    gateway       \* the process: the globals _engine and _SessionLocal of
                  \* app/database.py, how often create_engine and sessionmaker ran,
                  \* and where each thread is in get_engine / get_session_local

vars == <<db, clock, req, started, updatesDone, gateway>>

----------------------------------------------------------------------------
(* Bounds of the model.                                                    *)

MaxRequests == 3

Workers == {"w1", "w2"}

----------------------------------------------------------------------------
(* Values.  A column value or an attribute is None (SQL NULL, Python None) *)
(* or Some(v).                                                             *)

None == <<>>
Some(v) == <<v>>
Opt(S) == {None} \cup {Some(v) : v \in S}

Usernames == {"alice", "bob"}
Emails == {"a@x.io", "b@x.io"}
FullNames == {"Al"}
Titles == {<<"L", "a", "p">>, <<"c", "u", "p">>}
Descriptions == {"d"}
Prices == {1, 2}

\* The values of func.now(): the store's time has a coarse resolution, two
\* statements may see the same time and time never runs backwards.
Times == {0, 1}

Entities == {"users", "items"}

\* The columns a create or update input can carry (schemas.UserBase, UserUpdate).
UserFields == {"username", "email", "full_name", "is_active"}

\* schemas.ItemBase, ItemUpdate
ItemFields == {"title", "description", "price", "is_available"}

InputFields(e) == IF e = "users" THEN UserFields ELSE ItemFields

\* Column(..., nullable=False)
NotNullCols(e) == IF e = "users" THEN {"username", "email"} ELSE {"title", "price"}

\* Column(..., unique=True)
UniqueCols(e) == IF e = "users" THEN {"username", "email"} ELSE {}

\* schemas.UserCreate: username and email required, full_name optional with
\* default None, is_active a bool with default True.  model_dump() yields all
\* four fields.
UserCreateInputs ==
    { [username |-> Some(u), email |-> Some(m), full_name |-> n, is_active |-> Some(a)] :
        u \in Usernames, m \in Emails, n \in Opt(FullNames), a \in BOOLEAN }

\* The values a field of schemas.UserUpdate accepts when it is supplied: every
\* field is Optional, so an explicit null validates.
UserUpdateValues(f) ==
    CASE f = "username" -> Opt(Usernames)
      [] f = "email" -> Opt(Emails)
      [] f = "full_name" -> Opt(FullNames)
      [] f = "is_active" -> {Some(TRUE), Some(FALSE)}

\* model_dump(exclude_unset=True): of the choices made for each field (None:
\* not supplied, Some(v): supplied with the value v, which may be a null), the
\* supplied fields with their values.
model_dump_exclude_unset(choice) ==
    [f \in {g \in DOMAIN choice : choice[g] # None} |-> choice[f][1]]

\* What a body that validates as schemas.UserUpdate dumps to.
UserUpdateInputs ==
    { model_dump_exclude_unset(
          [username |-> u, email |-> m, full_name |-> n, is_active |-> a]) :
        u \in Opt(UserUpdateValues("username")), m \in Opt(UserUpdateValues("email")),
        n \in Opt(UserUpdateValues("full_name")), a \in Opt(UserUpdateValues("is_active")) }

\* schemas.ItemCreate: title and price required (price > 0), description
\* optional with default None, is_available a bool with default True.
ItemCreateInputs ==
    { [title |-> Some(t), description |-> d, price |-> Some(p), is_available |-> Some(a)] :
        t \in Titles, d \in Opt(Descriptions), p \in Prices, a \in BOOLEAN }

\* The values a field of schemas.ItemUpdate accepts when it is supplied.
ItemUpdateValues(f) ==
    CASE f = "title" -> Opt(Titles)
      [] f = "description" -> Opt(Descriptions)
      [] f = "price" -> Opt(Prices)
      [] f = "is_available" -> {Some(TRUE), Some(FALSE)}

\* What a body that validates as schemas.ItemUpdate dumps to.
ItemUpdateInputs ==
    { model_dump_exclude_unset(
          [title |-> t, description |-> d, price |-> p, is_available |-> a]) :
        t \in Opt(ItemUpdateValues("title")), d \in Opt(ItemUpdateValues("description")),
        p \in Opt(ItemUpdateValues("price")), a \in Opt(ItemUpdateValues("is_available")) }

----------------------------------------------------------------------------
(* The store.                                                              *)

Max(S) == CHOOSE x \in S : \A y \in S : y <= x

\* id = Column(Integer, primary_key=True) on the default SQLite store: an
\* INTEGER PRIMARY KEY without AUTOINCREMENT gets the largest key in use + 1.
NextId(tbl) == IF DOMAIN tbl = {} THEN 1 ELSE Max(DOMAIN tbl) + 1

\* Mutant: the table was declared without its unique=True columns.
ConstraintsOK_NoUnique(e, tbl, id, row) ==
    \A c \in NotNullCols(e) : row[c] # None

\* The NOT NULL and UNIQUE constraints of the table, checked by the store when
\* row is written under key id.
ConstraintsOK(e, tbl, id, row) ==
    /\ \A c \in NotNullCols(e) : row[c] # None
    /\ \A c \in UniqueCols(e) : \A j \in DOMAIN tbl \ {id} :
           row[c] = None \/ tbl[j][c] # row[c]

\* CRUDBase.get: the first row whose key is id, or None.
crud_get(tbl, id) ==
    IF id \in DOMAIN tbl THEN Some([id |-> id, row |-> tbl[id]]) ELSE None

\* Mutant: both lookups filter on models.User.username.
get_by_username_column(tbl, c, v) == \E j \in DOMAIN tbl : tbl[j]["username"] = v

\* CRUDUser.get_by_email / get_by_username: is there a row with column c = v.
get_by(tbl, c, v) == \E j \in DOMAIN tbl : tbl[j][c] = v

\* The store's time after a statement that took its time at now.
Later(now) == IF now + 1 \in Times THEN now + 1 ELSE now

\* Mutant: the flag of the input is not passed on, the column's default=True
\* applies.
Insert_FlagDefault(e, tbl, data, now) ==
    LET id   == NextId(tbl)
        flag == IF e = "users" THEN "is_active" ELSE "is_available"
        row  == [data EXCEPT ![flag] = Some(TRUE)]
                    @@ [created_at |-> Some(now), updated_at |-> None]
    IN  IF ConstraintsOK(e, tbl, id, row)
        THEN [outcome |-> "ok", tbl |-> (id :> row) @@ tbl, id |-> id]
        ELSE [outcome |-> "integrity", tbl |-> tbl, id |-> id]

\* db.add(self.model(**obj_in_data)); db.commit(): one INSERT.  created_at has
\* server_default=func.now(); updated_at has only onupdate, so it stays NULL.
Insert(e, tbl, data, now) ==
    LET id == NextId(tbl)
        row == data @@ [created_at |-> Some(now), updated_at |-> None]
    IN  IF ConstraintsOK(e, tbl, id, row)
        THEN [outcome |-> "ok", tbl |-> (id :> row) @@ tbl, id |-> id]
        ELSE [outcome |-> "integrity", tbl |-> tbl, id |-> id]

\* The attributes setattr() changed: the unit of work records a change only
\* when the new value differs from the loaded one.
Dirty(obj, patch) == { f \in DOMAIN patch : patch[f] # obj.row[f] }

\* Mutant: the unit of work emits its UPDATE whether or not an attribute
\* changed.
Flush_AlwaysEmit(e, tbl, obj, attrs, now) ==
    LET id  == obj.id
        row == [f \in DOMAIN tbl[id] |->
                  IF f \in DOMAIN attrs THEN attrs[f]
                  ELSE IF f = "updated_at" THEN Some(now)
                  ELSE tbl[id][f]]
    IN  IF id \notin DOMAIN tbl THEN [outcome |-> "stale", tbl |-> tbl]
        ELSE [outcome |-> "ok", tbl |-> [tbl EXCEPT ![id] = row]]

\* Mutant: the UPDATE sets every column from the loaded object.
Flush_WholeRow(e, tbl, obj, attrs, now) ==
    LET dirty == Dirty(obj, attrs)
        id    == obj.id
        row   == [f \in DOMAIN tbl[id] |->
                    IF f \in dirty THEN attrs[f]
                    ELSE IF f = "updated_at" THEN Some(now)
                    ELSE obj.row[f]]
    IN  IF dirty = {} THEN [outcome |-> "clean", tbl |-> tbl]
        ELSE IF id \notin DOMAIN tbl THEN [outcome |-> "stale", tbl |-> tbl]
        ELSE IF ConstraintsOK(e, tbl, id, row)
             THEN [outcome |-> "ok", tbl |-> [tbl EXCEPT ![id] = row]]
             ELSE [outcome |-> "integrity", tbl |-> tbl]

\* Mutant: the object is merged into the store, INSERT OR REPLACE: a row that
\* is gone is written again from the loaded object.
Flush_Merge(e, tbl, obj, attrs, now) ==
    LET dirty == Dirty(obj, attrs)
        id    == obj.id
        row   == [f \in DOMAIN obj.row |->
                    IF f \in dirty THEN attrs[f]
                    ELSE IF f = "updated_at" THEN Some(now)
                    ELSE IF id \in DOMAIN tbl THEN tbl[id][f] ELSE obj.row[f]]
    IN  IF dirty = {} THEN [outcome |-> "clean", tbl |-> tbl]
        ELSE IF ConstraintsOK(e, tbl, id, row)
             THEN [outcome |-> "ok", tbl |-> (id :> row) @@ tbl]
             ELSE [outcome |-> "integrity", tbl |-> tbl]

\* db.add(db_obj); db.commit() on a loaded object whose attributes attrs were
\* set.  The flush emits UPDATE ... SET <changed columns>, updated_at = now()
\* WHERE id = obj.id only when an attribute changed: onupdate=func.now() fires
\* with that UPDATE and not otherwise.  An UPDATE that matches no row raises, as
\* does a violated constraint; the transaction is then rolled back.
Flush(e, tbl, obj, attrs, now) ==
    LET dirty == Dirty(obj, attrs)
        id    == obj.id
        row   == [f \in DOMAIN tbl[id] |->
                    IF f \in dirty THEN attrs[f]
                    ELSE IF f = "updated_at" THEN Some(now)
                    ELSE tbl[id][f]]
    IN  IF dirty = {} THEN [outcome |-> "clean", tbl |-> tbl]
        ELSE IF id \notin DOMAIN tbl THEN [outcome |-> "stale", tbl |-> tbl]
        ELSE IF ConstraintsOK(e, tbl, id, row)
             THEN [outcome |-> "ok", tbl |-> [tbl EXCEPT ![id] = row]]
             ELSE [outcome |-> "integrity", tbl |-> tbl]

\* Mutant: model_dump() without exclude_unset, so that every field the caller
\* left out is set to its schema default, None.
Update_NoExcludeUnset(e, tbl, obj, patch, now) ==
    Flush(e, tbl, obj,
          [f \in InputFields(e) |-> IF f \in DOMAIN patch THEN patch[f] ELSE None], now)

\* Mutant: as above, but a None is skipped for the columns that are NOT NULL.
Update_ResetOptional(e, tbl, obj, patch, now) ==
    Flush(e, tbl, obj,
          [f \in DOMAIN patch \cup (InputFields(e) \ NotNullCols(e)) |->
              IF f \in DOMAIN patch THEN patch[f] ELSE None], now)

\* CRUDBase.update: setattr(db_obj, field, value) for every field of
\* obj_in.model_dump(exclude_unset=True), then db.add(db_obj); db.commit().
Update(e, tbl, obj, patch, now) == Flush(e, tbl, obj, patch, now)

\* Mutant: the update schemas declare created_at as one of their fields.
model_validate_WithCreatedAt(e, body) ==
    [f \in DOMAIN body \cap (InputFields(e) \cup {"created_at"}) |-> body[f]]

\* schemas.UserUpdate, schemas.ItemUpdate read from a request body: a
\* pydantic model keeps the keys that are fields of the schema and ignores
\* every other key of the body.
model_validate(e, body) == [f \in DOMAIN body \cap InputFields(e) |-> body[f]]

\* Mutant: the DELETE is not sent.
Delete_KeepsRow(tbl, id) == tbl

\* Mutant: DELETE ... WHERE id >= ?
Delete_FromId(tbl, id) == [i \in { j \in DOMAIN tbl : j < id } |-> tbl[i]]

\* db.delete(obj); db.commit(): DELETE ... WHERE id = obj.id.  A DELETE that
\* matches no row only warns.
Delete(tbl, id) == [j \in DOMAIN tbl \ {id} |-> tbl[j]]

----------------------------------------------------------------------------
(* Requests.  A worker serves one request at a time; each step below is    *)
(* one round trip of the request's session to the store.  A request is     *)
(* accepted with its first round trip.                                     *)

Idle == [route |-> "idle", pc |-> "done", id |-> 0, data |-> <<>>, obj |-> None,
         status |-> "", body |-> None, session |-> "none", run |-> 0]

NewRequest(route, id, data) ==
    [route |-> route, pc |-> "new", id |-> id, data |-> data, obj |-> None,
     status |-> "", body |-> None, session |-> "open", run |-> gateway.starts]

UserRoutes == {"create_user", "read_user", "update_user", "delete_user"}

EntityOf(route) == IF route \in UserRoutes THEN "users" ELSE "items"

\* The identifiers a request can name: those in use, and one that is not.
RequestIds(tbl) == DOMAIN tbl \cup {NextId(tbl)}

\* Mutant: get_db closes its session after the yield, with no try/finally.
Finish_NoFinally(r, status, body) ==
    [r EXCEPT !.pc = "done", !.obj = None, !.status = status, !.body = body,
              !.session = IF status \in {"200", "201"} THEN "closed" ELSE @]

\* The request ends, with a response or with an exception: get_db's finally
\* closes the session, and the session's objects are dropped.
Finish(r, status, body) ==
    [r EXCEPT !.pc = "done", !.obj = None, !.status = status, !.body = body,
              !.session = "closed"]

\* Python truthiness of an Optional[str] attribute of the update schema: a
\* field that was not supplied reads as None.
Present(patch, f) == f \in DOMAIN patch /\ patch[f] # None

\* A thread that is in neither function; engine and factory are what its
\* last calls returned (0: it has made no such call).
ThreadIdle == [pc |-> "idle", call |-> "", engine |-> 0, factory |-> 0]

\* The process after the import of app/database.py: _engine and _SessionLocal
\* are None (0), nothing was created.
Imported ==
    [engine |-> 0, factory |-> 0, engines |-> 0, factories |-> 0, starts |-> 1,
     thread |-> [w \in Workers |-> ThreadIdle]]

\* create_engine(...) and the assignment to _engine: a new engine.
create_engine(g) == [g EXCEPT !.engines = @ + 1, !.engine = g.engines + 1]

\* sessionmaker(...) and the assignment to _SessionLocal: a new factory.
sessionmaker(g) == [g EXCEPT !.factories = @ + 1, !.factory = g.factories + 1]

\* get_engine(), run without interruption.
get_engine(g) == IF g.engine = 0 THEN create_engine(g) ELSE g

\* get_session_local(), run without interruption.
get_session_local(g) == IF g.factory = 0 THEN sessionmaker(get_engine(g)) ELSE g

\* The state after the startup of the application: lifespan has run
\* init_db(), which made the engine and, with create_all, the two tables.
Init ==
    /\ db = [e \in Entities |-> <<>>]
    /\ clock = 0
    /\ req = [w \in Workers |-> Idle]
    /\ started = 0
    /\ updatesDone = [e \in Entities |-> <<>>]
    /\ gateway = get_engine(Imported)

CanStart(w) == req[w].pc = "done" /\ started < MaxRequests

At(w, route, pc) == req[w].route = route /\ req[w].pc = pc

\* The first round trip of a request, which reads: the worker goes on as r.
\* get_db has taken the request's session from the factory, which the first
\* request of the process makes.
Accept(w, r) ==
    /\ CanStart(w)
    /\ req' = [req EXCEPT ![w] = r]
    /\ started' = started + 1
    /\ gateway' = get_session_local(gateway)
    /\ UNCHANGED <<db, clock, updatesDone>>

\* A later round trip that reads: the worker goes on as r.
ReadOnly(w, r) ==
    /\ req' = [req EXCEPT ![w] = r]
    /\ UNCHANGED <<db, clock, started, updatesDone, gateway>>

(* ---- the generic engine's steps (crud.CRUDBase) ---- *)

\* CRUDBase.create up to db.commit().  An IntegrityError is caught nowhere: it
\* leaves the route as an unhandled exception, a 500.
crud_create_write(w, e) ==
    /\ LET res == Insert(e, db[e], req[w].data, clock)
       IN  IF res.outcome = "ok"
           THEN /\ db' = [db EXCEPT ![e] = res.tbl]
                /\ clock' = Later(clock)
                /\ updatesDone' = [updatesDone EXCEPT ![e] = (res.id :> "none") @@ @]
                /\ req' = [req EXCEPT ![w] = [@ EXCEPT !.pc = "refresh", !.id = res.id]]
           ELSE /\ req' = [req EXCEPT ![w] = Finish(@, "500", None)]
                /\ UNCHANGED <<db, clock, updatesDone>>
    /\ UNCHANGED <<started, gateway>>

\* CRUDBase.create: db.refresh(db_obj); return db_obj.  The row is read back
\* by its key; a row that is gone raises (a 500).
crud_create_refresh(w, e) ==
    LET obj == crud_get(db[e], req[w].id)
    IN  ReadOnly(w, IF obj = None THEN Finish(req[w], "500", None)
                    ELSE Finish(req[w], "201", obj))

\* What the route took from its lookup: 404 when there is no such row, else
\* the request r goes on to pc with the loaded object.
Loaded(r, obj, pc) ==
    IF obj = None THEN Finish(r, "404", None) ELSE [r EXCEPT !.obj = obj, !.pc = pc]

\* History: an update request's unit of work committed on row id; changed
\* tells whether it had set an attribute to a value other than the loaded one.
Committed(done, id, changed) ==
    IF id \notin DOMAIN done \/ done[id] = "deleted" THEN done
    ELSE [done EXCEPT ![id] = IF changed \/ @ = "changed" THEN "changed" ELSE "unchanged"]

\* CRUDBase.update up to db.commit().  The request carries its body as it was
\* sent; obj_in is the schema object the route was called with.
crud_update_write(w, e) ==
    /\ LET obj == req[w].obj[1]
           obj_in == model_validate(e, req[w].data)
           res == Update(e, db[e], obj, obj_in, clock)
       IN  /\ db' = [db EXCEPT ![e] = res.tbl]
           /\ clock' = IF res.outcome = "ok" THEN Later(clock) ELSE clock
           /\ IF res.outcome \in {"ok", "clean"}
              THEN /\ req' = [req EXCEPT ![w] = [@ EXCEPT !.pc = "refresh"]]
                   /\ updatesDone' = [updatesDone EXCEPT ![e] =
                          Committed(@, obj.id, Dirty(obj, obj_in) # {})]
              ELSE /\ req' = [req EXCEPT ![w] = Finish(@, "500", None)]
                   /\ UNCHANGED updatesDone
    /\ UNCHANGED <<started, gateway>>

\* CRUDBase.update: db.refresh(db_obj); return db_obj.
crud_update_refresh(w, e) ==
    LET obj == crud_get(db[e], req[w].id)
    IN  ReadOnly(w, IF obj = None THEN Finish(req[w], "500", None)
                    ELSE Finish(req[w], "200", obj))

\* Mutant: the deleted object is not handed back.
crud_delete_write_ReturnsNothing(w, e) ==
    /\ db' = [db EXCEPT ![e] = Delete(@, req[w].id)]
    /\ updatesDone' = [updatesDone EXCEPT ![e] = [@ EXCEPT ![req[w].id] = "deleted"]]
    /\ req' = [req EXCEPT ![w] = Finish(@, "200", None)]
    /\ UNCHANGED <<clock, started, gateway>>

\* CRUDBase.delete, second half: db.delete(obj); db.commit(); return obj.  The
\* flush takes the deleted object out of the session, so the commit does not
\* expire it: obj keeps the attribute values it was loaded with.  The body
\* kept here is what the engine hands to its route.
crud_delete_write(w, e) ==
    /\ db' = [db EXCEPT ![e] = Delete(@, req[w].id)]
    /\ updatesDone' = [updatesDone EXCEPT ![e] = [@ EXCEPT ![req[w].id] = "deleted"]]
    /\ req' = [req EXCEPT ![w] = Finish(@, "200", req[w].obj)]
    /\ UNCHANGED <<clock, started, gateway>>

(* ---- POST /users/ ---- *)

\* Mutant: the two lookups of create_user in the other order.
create_user_check_username_first(w, inputs) ==
    \E d \in inputs :
        LET r == NewRequest("create_user", 0, d)
        IN  Accept(w, IF get_by(db.users, "username", d.username)
                      THEN Finish(r, "400 Username already taken", None)
                      ELSE IF get_by(db.users, "email", d.email)
                      THEN Finish(r, "400 Email already registered", None)
                      ELSE [r EXCEPT !.pc = "write"])

\* The request arrives with a body that validated as schemas.UserCreate:
\* db_user = crud.user.get_by_email(db, email=user.email)
create_user_check_email(w, inputs) ==
    \E d \in inputs :
        LET r == NewRequest("create_user", 0, d)
        IN  Accept(w, IF get_by(db.users, "email", d.email)
                      THEN Finish(r, "400 Email already registered", None)
                      ELSE [r EXCEPT !.pc = "check_username"])

\* Mutant: create_user without its username lookup.
create_user_check_username_skipped(w) ==
    /\ At(w, "create_user", "check_username")
    /\ ReadOnly(w, [req[w] EXCEPT !.pc = "write"])

\* db_user = crud.user.get_by_username(db, username=user.username)
create_user_check_username(w) ==
    /\ At(w, "create_user", "check_username")
    /\ ReadOnly(w, IF get_by(db.users, "username", req[w].data.username)
                   THEN Finish(req[w], "400 Username already taken", None)
                   ELSE [req[w] EXCEPT !.pc = "write"])

\* return crud.user.create(db=db, obj_in=user)
create_user_write(w) == At(w, "create_user", "write") /\ crud_create_write(w, "users")

create_user_refresh(w) == At(w, "create_user", "refresh") /\ crud_create_refresh(w, "users")

(* ---- GET /users/{user_id} ---- *)

\* db_user = crud.user.get(db, id=user_id); 404 when it is None.
read_user(w) ==
    \E id \in RequestIds(db.users) :
        LET r   == NewRequest("read_user", id, <<>>)
            obj == crud_get(db.users, id)
        IN  Accept(w, IF obj = None THEN Finish(r, "404", None) ELSE Finish(r, "200", obj))

(* ---- PUT /users/{user_id} ---- *)

\* Mutant: the lookup is made whenever an email is supplied.
EmailCheckNeeded_Always(patch, obj) == Present(patch, "email")

\* if user.email and user.email != db_user.email
EmailCheckNeeded(patch, obj) == Present(patch, "email") /\ patch.email # obj.row.email

\* Mutant: the lookup is made whenever a username is supplied.
UsernameCheckNeeded_Always(patch, obj) == Present(patch, "username")

\* if user.username and user.username != db_user.username
UsernameCheckNeeded(patch, obj) ==
    Present(patch, "username") /\ patch.username # obj.row.username

\* db_user = crud.user.get(db, id=user_id); 404 when it is None.
update_user_get(w, inputs) ==
    \E id \in RequestIds(db.users), p \in inputs :
        LET r   == NewRequest("update_user", id, p)
            obj == crud_get(db.users, id)
        IN  Accept(w, Loaded(r, obj,
                        IF EmailCheckNeeded(p, obj[1]) THEN "check_email"
                        ELSE IF UsernameCheckNeeded(p, obj[1]) THEN "check_username"
                        ELSE "write"))

\* existing_user = crud.user.get_by_email(db, email=user.email)
update_user_check_email(w) ==
    /\ At(w, "update_user", "check_email")
    /\ ReadOnly(w,
         IF get_by(db.users, "email", req[w].data.email)
         THEN Finish(req[w], "400 Email already registered", None)
         ELSE [req[w] EXCEPT
                 !.pc = IF UsernameCheckNeeded(req[w].data, req[w].obj[1])
                        THEN "check_username" ELSE "write"])

\* Mutant: on a taken username the other fields of the body are stored
\* before the request is refused.
update_user_check_username_StoresRest(w) ==
    /\ At(w, "update_user", "check_username")
    /\ IF get_by(db.users, "username", req[w].data.username)
       THEN LET rest == [f \in DOMAIN req[w].data \ {"username"} |-> req[w].data[f]]
                res  == Update("users", db.users, req[w].obj[1], rest, clock)
            IN  /\ db' = [db EXCEPT !.users = res.tbl]
                /\ req' = [req EXCEPT ![w] = Finish(@, "400 Username already taken", None)]
                /\ UNCHANGED <<clock, started, updatesDone, gateway>>
       ELSE ReadOnly(w, [req[w] EXCEPT !.pc = "write"])

\* existing_user = crud.user.get_by_username(db, username=user.username)
update_user_check_username(w) ==
    /\ At(w, "update_user", "check_username")
    /\ ReadOnly(w,
         IF get_by(db.users, "username", req[w].data.username)
         THEN Finish(req[w], "400 Username already taken", None)
         ELSE [req[w] EXCEPT !.pc = "write"])

\* return crud.user.update(db=db, db_obj=db_user, obj_in=user)
update_user_write(w) == At(w, "update_user", "write") /\ crud_update_write(w, "users")

update_user_refresh(w) == At(w, "update_user", "refresh") /\ crud_update_refresh(w, "users")

(* ---- DELETE /users/{user_id} ---- *)

\* crud.user.delete, first half: obj = db.query(self.model).get(id); the
\* route answers 404 when it is None.
delete_user_get(w) ==
    \E id \in RequestIds(db.users) :
        Accept(w, Loaded(NewRequest("delete_user", id, <<>>), crud_get(db.users, id), "write"))

delete_user_write(w) == At(w, "delete_user", "write") /\ crud_delete_write(w, "users")

(* ---- the item bodies as they arrive, and their validation ---- *)

\* The prices a caller may send, positive or not.
RawPrices == {-1, 0} \cup Prices

\* The bodies of POST /items/ that carry a title and any price, or a null.
RawItemCreateBodies ==
    { [title |-> Some(t), description |-> None, price |-> p, is_available |-> Some(TRUE)] :
        t \in Titles, p \in Opt(RawPrices) }

\* The bodies of PUT /items/{item_id} that supply a title, a price, both or
\* neither, a null included.
RawItemUpdateBodies ==
    { model_dump_exclude_unset([title |-> t, price |-> p]) :
        t \in Opt(Opt(Titles)), p \in Opt(Opt(RawPrices)) }

\* Mutant: price declared with ge=0.
ItemCreate_validates_NonNegative(body) ==
    /\ body.title # None /\ Len(body.title[1]) \in 1 .. 100
    /\ body.price # None /\ body.price[1] >= 0

\* schemas.ItemCreate: title a string of 1 to 100 characters; price an int
\* with gt=0, required.
ItemCreate_validates(body) ==
    /\ body.title # None /\ Len(body.title[1]) \in 1 .. 100
    /\ body.price # None /\ body.price[1] > 0

\* Mutant: price declared without gt=0.
ItemUpdate_validates_AnyPrice(patch) ==
    ("title" \in DOMAIN patch /\ patch.title # None) => Len(patch.title[1]) \in 1 .. 100

\* schemas.ItemUpdate: every field Optional, so a null validates; a title
\* that is given has 1 to 100 characters and a price that is given is > 0.
ItemUpdate_validates(patch) ==
    /\ ("title" \in DOMAIN patch /\ patch.title # None)
         => Len(patch.title[1]) \in 1 .. 100
    /\ ("price" \in DOMAIN patch /\ patch.price # None) => patch.price[1] > 0

(* ---- POST /items/ ---- *)

\* The body does not validate as schemas.ItemCreate: the route is not called
\* and the request is answered 422.
create_item_invalid(w, bodies) ==
    \E d \in bodies :
        /\ ~ItemCreate_validates(d)
        /\ Accept(w, Finish(NewRequest("create_item", 0, d), "422", None))

\* The request arrives with a body that validated as schemas.ItemCreate:
\* return crud.item.create(db=db, obj_in=item)
create_item_write(w, inputs) ==
    /\ CanStart(w)
    /\ \E d \in inputs :
         LET res == Insert("items", db.items, d, clock)
         IN  /\ ItemCreate_validates(d)
             \* no column of items is unique and the schema admits no null
             \* title or price: the INSERT succeeds
             /\ res.outcome = "ok"
             /\ db' = [db EXCEPT !.items = res.tbl]
             /\ clock' = Later(clock)
             /\ updatesDone' = [updatesDone EXCEPT !.items = (res.id :> "none") @@ @]
             /\ req' = [req EXCEPT ![w] =
                          [NewRequest("create_item", res.id, d) EXCEPT !.pc = "refresh"]]
    /\ started' = started + 1
    /\ gateway' = get_session_local(gateway)

create_item_refresh(w) == At(w, "create_item", "refresh") /\ crud_create_refresh(w, "items")

(* ---- GET /items/{item_id} ---- *)

\* db_item = crud.item.get(db, id=item_id); 404 when it is None.
read_item(w) ==
    \E id \in RequestIds(db.items) :
        LET r   == NewRequest("read_item", id, <<>>)
            obj == crud_get(db.items, id)
        IN  Accept(w, IF obj = None THEN Finish(r, "404", None) ELSE Finish(r, "200", obj))

(* ---- PUT /items/{item_id} ---- *)

\* The body does not validate as schemas.ItemUpdate: the route is not called
\* and the request is answered 422.
update_item_invalid(w, bodies) ==
    \E id \in RequestIds(db.items), p \in bodies :
        /\ ~ItemUpdate_validates(p)
        /\ Accept(w, Finish(NewRequest("update_item", id, p), "422", None))

\* The body validated as schemas.ItemUpdate:
\* db_item = crud.item.get(db, id=item_id); 404 when it is None.
update_item_get(w, inputs) ==
    \E id \in RequestIds(db.items), p \in inputs :
        /\ ItemUpdate_validates(p)
        /\ Accept(w, Loaded(NewRequest("update_item", id, p), crud_get(db.items, id), "write"))

\* return crud.item.update(db=db, db_obj=db_item, obj_in=item)
update_item_write(w) == At(w, "update_item", "write") /\ crud_update_write(w, "items")

update_item_refresh(w) == At(w, "update_item", "refresh") /\ crud_update_refresh(w, "items")

(* ---- DELETE /items/{item_id} ---- *)

delete_item_get(w) ==
    \E id \in RequestIds(db.items) :
        Accept(w, Loaded(NewRequest("delete_item", id, <<>>), crud_get(db.items, id), "write"))

delete_item_write(w) == At(w, "delete_item", "write") /\ crud_delete_write(w, "items")

----------------------------------------------------------------------------
(* Listings.  None of the four queries has an ORDER BY: the rows come in   *)
(* the order of the store's scan of the table, which on the default SQLite *)
(* store is the order of the rowid, the primary key.                       *)

Min(S) == CHOOSE x \in S : \A y \in S : x <= y

RECURSIVE ScanFrom(_, _)
ScanFrom(tbl, ids) ==
    IF ids = {} THEN <<>>
    ELSE LET id == Min(ids)
         IN  <<[id |-> id, row |-> tbl[id]]>> \o ScanFrom(tbl, ids \ {id})

\* Mutant: the scan runs from either end of the table, by turns.
TableScan_ByTurns(tbl) ==
    LET rows == ScanFrom(tbl, DOMAIN tbl)
    IN  IF started % 2 = 0 THEN rows
        ELSE [i \in 1 .. Len(rows) |-> rows[Len(rows) + 1 - i]]

\* db.query(self.model): the rows of the table as the scan yields them.
TableScan(tbl) == ScanFrom(tbl, DOMAIN tbl)

\* Mutant: the LIMIT is applied to the rows before the OFFSET.
OffsetLimit_LimitFirst(rows, skip, limit) ==
    SubSeq(SubSeq(rows, 1, IF limit < Len(rows) THEN limit ELSE Len(rows)),
           skip + 1, IF limit < Len(rows) THEN limit ELSE Len(rows))

\* .offset(skip).limit(limit).all(): the rows after the first skip of them, at
\* most limit of them.
OffsetLimit(rows, skip, limit) ==
    SubSeq(rows, skip + 1, IF skip + limit < Len(rows) THEN skip + limit ELSE Len(rows))

\* CRUDBase.get_multi
get_multi(tbl, skip, limit) == OffsetLimit(TableScan(tbl), skip, limit)

\* Mutant: the filter on the flag column is left out.
IsTrue_Any(v) == TRUE

\* column.is_(True): column IS 1, which a NULL does not satisfy.
IsTrue(v) == v = Some(TRUE)

\* CRUDUser.get_active_users
get_active_users(tbl, skip, limit) ==
    OffsetLimit(SelectSeq(TableScan(tbl), LAMBDA o : IsTrue(o.row.is_active)), skip, limit)

\* CRUDItem.get_available_items
get_available_items(tbl, skip, limit) ==
    OffsetLimit(SelectSeq(TableScan(tbl), LAMBDA o : IsTrue(o.row.is_available)), skip, limit)

\* The store's LIKE compares the letters of ASCII without regard to case.
FoldMap == [L |-> "l", A |-> "a", P |-> "p", C |-> "c", U |-> "u"]

\* Mutant: LIKE compares the characters as they are.
Fold_ExactCase(ch) == ch

Fold(ch) == IF ch \in DOMAIN FoldMap THEN FoldMap[ch] ELSE ch

\* s LIKE pattern, a string being the sequence of its characters: % matches
\* any run of characters, _ any one character, and any other character the
\* characters that fold to what it folds to.
RECURSIVE Like(_, _)
Like(s, pattern) ==
    IF pattern = <<>> THEN s = <<>>
    ELSE IF Head(pattern) = "%"
         THEN Like(s, Tail(pattern)) \/ (s # <<>> /\ Like(Tail(s), pattern))
    ELSE /\ s # <<>>
         /\ Head(pattern) = "_" \/ Fold(Head(pattern)) = Fold(Head(s))
         /\ Like(Tail(s), Tail(pattern))

\* column.contains(other): column LIKE '%' || other || '%', with the
\* characters of other that are a wildcard of LIKE left as they are.
contains(column, other) ==
    column # None /\ Like(column[1], <<"%">> \o other \o <<"%">>)

\* CRUDItem.search_by_title
search_by_title(tbl, title, skip, limit) ==
    OffsetLimit(SelectSeq(TableScan(tbl), LAMBDA o : contains(o.row.title, title)),
                skip, limit)

\* Query(0, ge=0) and Query(100, ge=1, le=1000): the values of skip and limit
\* that the callers of the model send.
SkipValues == {0, 1, 2}
LimitValues == {1, 2}

\* The search texts the callers send: one that is in a title letter for
\* letter, one that is in it but for the case of its letters, one with a
\* wildcard of LIKE, and the empty text.
SearchTexts == {<<"a", "p">>, <<"l", "A">>, <<"_", "p">>, <<>>}

(* ---- GET /users/ ---- *)

\* read_users: one query, get_active_users when active_only and get_multi
\* otherwise.
read_users(w) ==
    \E skip \in SkipValues, limit \in LimitValues, active_only \in BOOLEAN :
        LET r == NewRequest("read_users", 0,
                     [skip |-> skip, limit |-> limit, active_only |-> active_only])
        IN  Accept(w, Finish(r, "200",
                Some(IF active_only THEN get_active_users(db.users, skip, limit)
                     ELSE get_multi(db.users, skip, limit))))

(* ---- GET /items/ ---- *)

\* Mutant: the availability flag is looked at before the search text.
read_items_AvailabilityFirst(w) ==
    \E skip \in SkipValues, limit \in LimitValues, available_only \in BOOLEAN,
       search \in Opt(SearchTexts) :
        LET r == NewRequest("read_items", 0,
                     [skip |-> skip, limit |-> limit,
                      available_only |-> available_only, search |-> search])
        IN  Accept(w, Finish(r, "200",
                Some(IF available_only
                     THEN get_available_items(db.items, skip, limit)
                     ELSE IF search # None /\ search[1] # <<>>
                     THEN search_by_title(db.items, search[1], skip, limit)
                     ELSE get_multi(db.items, skip, limit))))

\* Mutant: if search is not None
read_items_SearchIfNotNone(w) ==
    \E skip \in SkipValues, limit \in LimitValues, available_only \in BOOLEAN,
       search \in Opt(SearchTexts) :
        LET r == NewRequest("read_items", 0,
                     [skip |-> skip, limit |-> limit,
                      available_only |-> available_only, search |-> search])
        IN  Accept(w, Finish(r, "200",
                Some(IF search # None
                     THEN search_by_title(db.items, search[1], skip, limit)
                     ELSE IF available_only
                     THEN get_available_items(db.items, skip, limit)
                     ELSE get_multi(db.items, skip, limit))))

\* read_items: one query.  if search: a text that is None or empty is falsy.
read_items(w) ==
    \E skip \in SkipValues, limit \in LimitValues, available_only \in BOOLEAN,
       search \in Opt(SearchTexts) :
        LET r == NewRequest("read_items", 0,
                     [skip |-> skip, limit |-> limit,
                      available_only |-> available_only, search |-> search])
        IN  Accept(w, Finish(r, "200",
                Some(IF search # None /\ search[1] # <<>>
                     THEN search_by_title(db.items, search[1], skip, limit)
                     ELSE IF available_only
                     THEN get_available_items(db.items, skip, limit)
                     ELSE get_multi(db.items, skip, limit))))

----------------------------------------------------------------------------
(* The lazy initialization of the gateway, statement by statement.  The    *)
(* callers are threads: get_db is a generator dependency that runs in the  *)
(* thread pool, and a thread can be preempted between the test of a global *)
(* and the assignment to it.                                               *)

InCall(w, pc) == gateway.thread[w].pc = pc

\* Thread w goes on as t in a process that is as g.
ThreadStep(w, g, t) ==
    /\ gateway' = [g EXCEPT !.thread[w] = t]
    /\ UNCHANGED <<db, clock, req, started, updatesDone>>

\* A call of get_engine() (by init_db, drop_db or a script) begins:
\* if _engine is None
call_get_engine(w) ==
    /\ InCall(w, "idle") /\ started < MaxRequests
    /\ gateway' = [gateway EXCEPT !.thread[w] =
                     [@ EXCEPT !.call = "get_engine",
                               !.pc = IF gateway.engine = 0 THEN "create_engine"
                                      ELSE "return_engine"]]
    /\ started' = started + 1
    /\ UNCHANGED <<db, clock, req, updatesDone>>

\* A call of get_session_local() (by get_db) begins: if _SessionLocal is None
call_get_session_local(w) ==
    /\ InCall(w, "idle") /\ started < MaxRequests
    /\ gateway' = [gateway EXCEPT !.thread[w] =
                     [@ EXCEPT !.call = "get_session_local",
                               !.pc = IF gateway.factory = 0 THEN "bind_engine"
                                      ELSE "return_factory"]]
    /\ started' = started + 1
    /\ UNCHANGED <<db, clock, req, updatesDone>>

\* get_session_local: bind=get_engine(), the call's test of _engine.
get_session_local_bind(w) ==
    /\ InCall(w, "bind_engine")
    /\ ThreadStep(w, gateway,
         [gateway.thread[w] EXCEPT
            !.pc = IF gateway.engine = 0 THEN "create_engine" ELSE "return_engine"])

\* get_engine: _engine = create_engine(...)
get_engine_create(w) ==
    /\ InCall(w, "create_engine")
    /\ ThreadStep(w, create_engine(gateway),
         [gateway.thread[w] EXCEPT !.pc = "return_engine"])

\* get_engine: return _engine, to the caller or to get_session_local.
get_engine_return(w) ==
    /\ InCall(w, "return_engine")
    /\ ThreadStep(w, gateway,
         [gateway.thread[w] EXCEPT
            !.engine = gateway.engine,
            !.pc = IF gateway.thread[w].call = "get_engine"
                   THEN "idle" ELSE "sessionmaker"])

\* get_session_local: _SessionLocal = sessionmaker(..., bind=<the engine>)
get_session_local_make(w) ==
    /\ InCall(w, "sessionmaker")
    /\ ThreadStep(w, sessionmaker(gateway),
         [gateway.thread[w] EXCEPT !.pc = "return_factory"])

\* get_session_local: return _SessionLocal
get_session_local_return(w) ==
    /\ InCall(w, "return_factory")
    /\ ThreadStep(w, gateway,
         [gateway.thread[w] EXCEPT !.factory = gateway.factory, !.pc = "idle"])

----------------------------------------------------------------------------
(* Process start.  The store is the database file, which outlives the      *)
(* process; the module globals of app/database.py do not.                  *)

MaxStarts == 2

\* Mutant: the schema is dropped and created again.
create_all_Recreate(store) == [e \in Entities |-> <<>>]

\* Base.metadata.create_all(bind=engine): CREATE TABLE for the tables of the
\* metadata that the store does not have (checkfirst is on by default); a
\* table that exists is left as it is.
create_all(store) == [e \in Entities |-> IF e \in DOMAIN store THEN store[e] ELSE <<>>]

\* init_db(): engine = get_engine(); Base.metadata.create_all(bind=engine)
init_db(g, store) == [gateway |-> get_engine(g), db |-> create_all(store)]

\* The process is stopped and started again: the requests in flight are
\* lost, the responses already sent stay with their clients, the module is
\* imported afresh and the lifespan's startup runs init_db() on the store as
\* the last process left it.
lifespan ==
    /\ gateway.starts < MaxStarts
    /\ LET up == init_db([Imported EXCEPT !.starts = gateway.starts + 1], db)
       IN  /\ gateway' = up.gateway
           /\ db' = up.db
    /\ req' = [w \in Workers |-> IF req[w].pc = "done" THEN req[w] ELSE Idle]
    /\ UNCHANGED <<clock, started, updatesDone>>

----------------------------------------------------------------------------
(* Specifications.                                                         *)

\* The round trips of the user routes that follow the first.
UserSteps(w) ==
    \/ create_user_check_username(w)
    \/ create_user_write(w)
    \/ create_user_refresh(w)
    \/ update_user_check_email(w)
    \/ update_user_check_username(w)
    \/ update_user_write(w)
    \/ update_user_refresh(w)
    \/ delete_user_write(w)

\* The round trips of the item routes that follow the first.
ItemSteps(w) ==
    \/ create_item_refresh(w)
    \/ update_item_write(w)
    \/ update_item_refresh(w)
    \/ delete_item_write(w)

\* The callers of the engine specification: two create bodies per entity, one
\* that leaves the optional fields at their defaults and one that sets them,
\* and update bodies that supply at most one field.
EngineUserCreateInputs ==
    { [username |-> Some("alice"), email |-> Some("a@x.io"),
       full_name |-> None, is_active |-> Some(TRUE)],
      [username |-> Some("bob"), email |-> Some("b@x.io"),
       full_name |-> Some("Al"), is_active |-> Some(FALSE)] }

EngineItemCreateInputs ==
    { [title |-> Some(<<"L", "a", "p">>), description |-> None,
       price |-> Some(1), is_available |-> Some(TRUE)],
      [title |-> Some(<<"c", "u", "p">>), description |-> Some("d"),
       price |-> Some(2), is_available |-> Some(FALSE)] }

EngineUserUpdateInputs == { p \in UserUpdateInputs : Cardinality(DOMAIN p) <= 1 }

EngineItemUpdateInputs == { p \in ItemUpdateInputs : Cardinality(DOMAIN p) <= 1 }

\* The engine under both entities, one client at a time: every request runs
\* to its response before the next one starts.
Next ==
    \/ create_user_check_email("w1", EngineUserCreateInputs)
    \/ update_user_get("w1", EngineUserUpdateInputs)
    \/ read_user("w1")
    \/ delete_user_get("w1")
    \/ UserSteps("w1")
    \/ create_item_write("w1", EngineItemCreateInputs)
    \/ update_item_get("w1", EngineItemUpdateInputs)
    \/ read_item("w1")
    \/ delete_item_get("w1")
    \/ ItemSteps("w1")

Spec == Init /\ [][Next]_vars

\* The user service, one client at a time, over every create body and the
\* update bodies that supply at most two fields.
SeqUserUpdateInputs == { p \in UserUpdateInputs : Cardinality(DOMAIN p) <= 2 }

NextUsers ==
    \/ create_user_check_email("w1", UserCreateInputs)
    \/ update_user_get("w1", SeqUserUpdateInputs)
    \/ read_user("w1")
    \/ delete_user_get("w1")
    \/ UserSteps("w1")

SpecUsers == Init /\ [][NextUsers]_vars

\* The callers of the concurrent specification leave the optional fields of
\* a create at their defaults, and update at most one of the fields username,
\* email and full_name, with no null for a column that is NOT NULL.
ConcCreateInputs ==
    { d \in UserCreateInputs : d.full_name = None /\ d.is_active = Some(TRUE) }

ConcUpdateInputs ==
    { p \in UserUpdateInputs :
        /\ DOMAIN p \subseteq {"username", "email", "full_name"}
        /\ Cardinality(DOMAIN p) <= 1
        /\ \A f \in DOMAIN p \cap NotNullCols("users") : p[f] # None }

\* Request-parallel: the workers' steps interleave freely.
NextConc ==
    \E w \in Workers :
        \/ create_user_check_email(w, ConcCreateInputs)
        \/ update_user_get(w, ConcUpdateInputs)
        \/ delete_user_get(w)
        \/ UserSteps(w)

SpecConc == Init /\ [][NextConc]_vars

\* The listings over the tables that creates and updates leave behind: up
\* to MaxRows users, with any active flags, or up to MaxRows - 2 items, with
\* any titles and available flags, under the identifiers from 1 on.  One
\* client at a time lists, and deletes.
MaxRows == 4

ListedUsernames == <<"alice", "bob", "carol", "dave", "erin">>
ListedEmails == <<"a@x.io", "b@x.io", "c@x.io", "d@x.io", "e@x.io">>

StoredUser(i, active) ==
    [username |-> Some(ListedUsernames[i]), email |-> Some(ListedEmails[i]),
     full_name |-> None, is_active |-> Some(active),
     created_at |-> Some(0), updated_at |-> None]

StoredItem(title, available) ==
    [title |-> Some(title), description |-> None, price |-> Some(1),
     is_available |-> Some(available), created_at |-> Some(0), updated_at |-> None]

UserTables ==
    UNION { { [i \in 1 .. n |-> StoredUser(i, f[i])] : f \in [1 .. n -> BOOLEAN] } :
              n \in 0 .. MaxRows }

ItemTables ==
    UNION { { [i \in 1 .. n |-> StoredItem(f[i][1], f[i][2])] :
                f \in [1 .. n -> Titles \X BOOLEAN] } :
              n \in 0 .. MaxRows - 2 }

InitList ==
    /\ db \in { [users |-> t, items |-> <<>>] : t \in UserTables }
                \cup { [users |-> <<>>, items |-> t] : t \in ItemTables }
    /\ clock = 1
    /\ req = [w \in Workers |-> Idle]
    /\ started = 0
    /\ updatesDone = [e \in Entities |-> [i \in DOMAIN db[e] |-> "none"]]
    /\ gateway = get_engine(Imported)

NextList ==
    \/ read_users("w1")
    \/ read_items("w1")
    \/ delete_user_get("w1")
    \/ delete_user_write("w1")
    \/ delete_item_get("w1")
    \/ delete_item_write("w1")

SpecList == InitList /\ [][NextList]_vars

\* The item service, one client at a time, over bodies that validate and
\* bodies that do not.
NextItems ==
    \/ create_item_invalid("w1", RawItemCreateBodies)
    \/ create_item_write("w1", RawItemCreateBodies)
    \/ update_item_invalid("w1", RawItemUpdateBodies)
    \/ update_item_get("w1", RawItemUpdateBodies)
    \/ read_item("w1")
    \/ delete_item_get("w1")
    \/ ItemSteps("w1")

SpecItems == Init /\ [][NextItems]_vars

\* The first callers of the gateway in a process that has just imported
\* app/database.py: the threads' statements interleave freely.
InitImported ==
    /\ db = [e \in Entities |-> <<>>]
    /\ clock = 0
    /\ req = [w \in Workers |-> Idle]
    /\ started = 0
    /\ updatesDone = [e \in Entities |-> <<>>]
    /\ gateway = Imported

NextInit ==
    \E w \in Workers :
        \/ call_get_engine(w)
        \/ call_get_session_local(w)
        \/ get_session_local_bind(w)
        \/ get_engine_create(w)
        \/ get_engine_return(w)
        \/ get_session_local_make(w)
        \/ get_session_local_return(w)

SpecInit == InitImported /\ [][NextInit]_vars

\* Update bodies that carry, next to at most one field of the schema, an id
\* and a created_at of the caller's choosing.
FrameExtras ==
    { model_dump_exclude_unset([id |-> i, created_at |-> c]) :
        i \in {None, Some(Some(2))}, c \in {None, Some(Some(1))} }

FrameUserUpdateBodies ==
    { p @@ x : p \in { q \in EngineUserUpdateInputs :
                         DOMAIN q \subseteq {"email", "username", "full_name"} },
               x \in FrameExtras }

FrameItemUpdateBodies ==
    { p @@ x : p \in { q \in EngineItemUpdateInputs :
                         DOMAIN q \subseteq {"description", "price"} },
               x \in FrameExtras }

\* Both entities, one client at a time, with update bodies that name columns
\* the store assigns.
NextFrame ==
    \/ create_user_check_email("w1", EngineUserCreateInputs)
    \/ update_user_get("w1", FrameUserUpdateBodies)
    \/ delete_user_get("w1")
    \/ UserSteps("w1")
    \/ create_item_write("w1", EngineItemCreateInputs)
    \/ update_item_get("w1", FrameItemUpdateBodies)
    \/ delete_item_get("w1")
    \/ ItemSteps("w1")

SpecFrame == Init /\ [][NextFrame]_vars

\* Creates and reads of both entities by two clients, across restarts of the
\* process.
NextRestart ==
    \/ lifespan
    \/ \E w \in Workers :
         \/ create_user_check_email(w, EngineUserCreateInputs)
         \/ create_user_check_username(w)
         \/ create_user_write(w)
         \/ create_user_refresh(w)
         \/ read_user(w)
         \/ create_item_write(w, EngineItemCreateInputs)
         \/ create_item_refresh(w)
         \/ read_item(w)

SpecRestart == Init /\ [][NextRestart]_vars

\* The item service under two clients whose steps interleave freely.
NextRace ==
    \E w \in Workers :
        \/ create_item_write(w, EngineItemCreateInputs)
        \/ update_item_get(w, EngineItemUpdateInputs)
        \/ read_item(w)
        \/ delete_item_get(w)
        \/ ItemSteps(w)

SpecRace == Init /\ [][NextRace]_vars

----------------------------------------------------------------------------
(* Properties.                                                             *)

\* Worker w's request is accepted in this step (one client at a time).
Accepted(w) == started' = started + 1 /\ \A v \in Workers \ {w} : req'[v] = req[v]

\* Worker w takes this step.
Stepped(w) == req'[w] # req[w]

\* A stored user has the email, the username.
EmailStored(m) == \E i \in DOMAIN db.users : db.users[i].email = m
UsernameStored(u) == \E i \in DOMAIN db.users : db.users[i].username = u

CreateRoutes == {"create_user", "create_item"}
UpdateRoutes == {"update_user", "update_item"}
StoreAssigned == {"created_at", "updated_at"}

\* C1: when a create (of a user or of an item) answers 201, a get of the
\* identifier it returns yields the returned record, every field of the input
\* is in it with the input's value, and the only other fields are the two
\* timestamps the store assigns.
C1_GetAfterCreate ==
    [][\A w \in Workers :
         (req[w].route \in CreateRoutes /\ req[w].pc = "refresh" /\ req'[w].status = "201")
         => LET e       == EntityOf(req[w].route)
                created == req'[w].body[1]
            IN  /\ crud_get(db'[e], created.id) = Some(created)
                /\ \A f \in InputFields(e) : created.row[f] = req[w].data[f]
                /\ DOMAIN created.row = InputFields(e) \cup StoreAssigned]_vars

C1_Witness ==
    /\ req["w1"].route = "create_item" /\ req["w1"].status = "201"
    /\ req["w1"].body[1].row.description = Some("d")
    /\ req["w1"].body[1].row.is_available = Some(FALSE)
    /\ db.users # <<>>

\* C2: in every state of the concurrent user service no two stored users
\* share an email and no two share a username.
C2_UniqueUsers ==
    \A i, j \in DOMAIN db.users :
        i # j => /\ db.users[i].email # db.users[j].email
                 /\ db.users[i].username # db.users[j].username

\* Two users are stored and a request's write was turned down by the store.
C2_Witness ==
    /\ Cardinality(DOMAIN db.users) = 2
    /\ \E w \in Workers :
         req[w].route \in {"create_user", "update_user"} /\ req[w].status = "500"

\* C3: a create-user request accepted while a stored user has its email is
\* answered 400 "Email already registered", whatever its username, and the
\* store is as before.
C3_DuplicateEmailRejected ==
    [][\A w \in Workers :
         (/\ Accepted(w)
          /\ req'[w].route = "create_user"
          /\ EmailStored(req'[w].data.email))
         => (req'[w].status = "400 Email already registered" /\ db' = db)]_vars

\* The email conflict was raised for a username that no stored user has.
C3_Witness ==
    /\ req["w1"].route = "create_user"
    /\ req["w1"].status = "400 Email already registered"
    /\ ~UsernameStored(req["w1"].data.username)

\* C4: a create-user request whose email no stored user has and whose
\* username a stored user has passes the email lookup, is answered 400
\* "Username already taken" by the username lookup, and the store is as before.
C4_DuplicateUsernameRejected ==
    [][\A w \in Workers :
         /\ (/\ Accepted(w)
             /\ req'[w].route = "create_user"
             /\ ~EmailStored(req'[w].data.email)
             /\ UsernameStored(req'[w].data.username))
            => (req'[w].pc = "check_username" /\ db' = db)
         /\ (/\ At(w, "create_user", "check_username")
             /\ Stepped(w)
             /\ ~EmailStored(req[w].data.email)
             /\ UsernameStored(req[w].data.username))
            => (req'[w].status = "400 Username already taken" /\ db' = db)]_vars

C4_Witness ==
    /\ req["w1"].route = "create_user"
    /\ req["w1"].status = "400 Username already taken"
    /\ ~EmailStored(req["w1"].data.email)
    /\ UsernameStored(req["w1"].data.username)

\* C5: a create-user request accepted while its email and its username are
\* both stored is answered with the email conflict.
C5_EmailConflictFirst ==
    [][\A w \in Workers :
         (/\ Accepted(w)
          /\ req'[w].route = "create_user"
          /\ EmailStored(req'[w].data.email)
          /\ UsernameStored(req'[w].data.username))
         => (/\ req'[w].pc = "done"
             /\ req'[w].status # "400 Username already taken"
             /\ req'[w].status = "400 Email already registered")]_vars

\* The email and the username of the rejected input belong to two users.
C5_Witness ==
    /\ req["w1"].route = "create_user"
    /\ req["w1"].status = "400 Email already registered"
    /\ \E i, j \in DOMAIN db.users :
         /\ i # j
         /\ db.users[i].email = req["w1"].data.email
         /\ db.users[j].username = req["w1"].data.username

\* C6: a create-user write that the store turns down because a stored user
\* has the email (a concurrent create committed it after the lookup) is
\* answered with the email conflict.
C6_LoserGetsConflict ==
    [][\A w \in Workers :
         (/\ At(w, "create_user", "write")
          /\ Stepped(w)
          /\ EmailStored(req[w].data.email))
         => (db' = db /\ req'[w].status = "400 Email already registered")]_vars

\* C7: the commit of an update (of a user or of an item) whose supplied
\* values put no null in a NOT NULL column succeeds; the stored record then
\* has every supplied field at the supplied value and every other field but
\* updated_at at its old value; and the record the update returns is the
\* stored one.
C7_UpdateSetsOnlySuppliedFields ==
    [][\A w \in Workers :
         LET e  == EntityOf(req[w].route)
             id == req[w].id
             p  == req[w].data
         IN  /\ (/\ req[w].route \in UpdateRoutes /\ req[w].pc = "write" /\ Stepped(w)
                 /\ \A f \in DOMAIN p \cap NotNullCols(e) : p[f] # None)
                => /\ req'[w].pc = "refresh"
                   /\ \A f \in DOMAIN p : db'[e][id][f] = p[f]
                   /\ \A g \in DOMAIN db[e][id] \ (DOMAIN p \cup {"updated_at"}) :
                        db'[e][id][g] = db[e][id][g]
             /\ (req[w].route \in UpdateRoutes /\ req[w].pc = "refresh" /\ Stepped(w))
                => /\ req'[w].status = "200"
                   /\ req'[w].body = Some([id |-> id, row |-> db[e][id]])]_vars

\* An update of the price alone answered with the item's other fields, none
\* of them at a default.
C7_Witness ==
    /\ req["w1"].route = "update_item" /\ req["w1"].status = "200"
    /\ DOMAIN req["w1"].data = {"price"}
    /\ req["w1"].body[1].row.price = req["w1"].data.price
    /\ req["w1"].body[1].row.updated_at # None
    /\ req["w1"].body[1].row.description = Some("d")
    /\ req["w1"].body[1].row.is_available = Some(FALSE)

\* C8: the commit of an update with an empty input succeeds and leaves every
\* field of the record but updated_at as it was.
C8_EmptyUpdateChangesNothing ==
    [][\A w \in Workers :
         LET e  == EntityOf(req[w].route)
             id == req[w].id
         IN  (/\ req[w].route \in UpdateRoutes /\ req[w].pc = "write" /\ Stepped(w)
              /\ DOMAIN req[w].data = {})
             => /\ req'[w].pc = "refresh"
                /\ DOMAIN db'[e] = DOMAIN db[e]
                /\ \A g \in DOMAIN db[e][id] \ {"updated_at"} :
                     db'[e][id][g] = db[e][id][g]]_vars

C8_Witness ==
    /\ req["w1"].route = "update_user" /\ req["w1"].status = "200"
    /\ DOMAIN req["w1"].data = {}
    /\ req["w1"].body[1].row.full_name = Some("Al")
    /\ req["w1"].body[1].row.is_active = Some(FALSE)

OwnValues(p, row) ==
    /\ DOMAIN p \cap {"email", "username"} # {}
    /\ "email" \in DOMAIN p => p.email = row.email
    /\ "username" \in DOMAIN p => p.username = row.username

\* C10: an update-user request whose email and username, where supplied, are
\* those of the record it names goes to its write without a lookup, the write
\* commits, and the request is answered 200.
C10_OwnValuesRaiseNoConflict ==
    [][\A w \in Workers :
         /\ (/\ Accepted(w)
             /\ req'[w].route = "update_user"
             /\ req'[w].id \in DOMAIN db.users
             /\ OwnValues(req'[w].data, db.users[req'[w].id]))
            => req'[w].pc = "write"
         /\ (/\ At(w, "update_user", "write")
             /\ Stepped(w)
             /\ OwnValues(req[w].data, req[w].obj[1].row))
            => req'[w].pc = "refresh"
         /\ (/\ At(w, "update_user", "refresh")
             /\ Stepped(w)
             /\ OwnValues(req[w].data, req[w].obj[1].row))
            => req'[w].status = "200"]_vars

\* The email of a user was sent back unchanged while another user was stored.
C10_Witness ==
    /\ req["w1"].route = "update_user" /\ req["w1"].status = "200"
    /\ DOMAIN req["w1"].data = {"email"}
    /\ req["w1"].body[1].row.email = req["w1"].data.email
    /\ req["w1"].body[1].row.updated_at = None
    /\ Cardinality(DOMAIN db.users) = 2

\* The input supplies field f with a value other than the record's.
Changes(p, row, f) == f \in DOMAIN p /\ p[f] # None /\ p[f] # row[f]

\* C11: an update-user request on a stored record looks the email up exactly
\* when its input supplies an email other than the record's, and the username
\* exactly when it supplies a username other than the record's, the email
\* first; a lookup that finds the value on a stored user ends the request
\* with the conflict of that field and the store is as before; and a conflict
\* is raised only for a field that was supplied with another value.
C11_UpdateChecksWhenChanged ==
    [][\A w \in Workers :
         /\ (/\ Accepted(w)
             /\ req'[w].route = "update_user"
             /\ req'[w].id \in DOMAIN db.users)
            => LET p   == req'[w].data
                   row == db.users[req'[w].id]
               IN  req'[w].pc = IF Changes(p, row, "email") THEN "check_email"
                                ELSE IF Changes(p, row, "username") THEN "check_username"
                                ELSE "write"
         /\ (At(w, "update_user", "check_email") /\ Stepped(w))
            => LET p   == req[w].data
                   row == db.users[req[w].id]
               IN  /\ db' = db
                   /\ IF EmailStored(p.email)
                      THEN req'[w].status = "400 Email already registered"
                      ELSE req'[w].pc = IF Changes(p, row, "username")
                                        THEN "check_username" ELSE "write"
         /\ (At(w, "update_user", "check_username") /\ Stepped(w))
            => /\ db' = db
               /\ IF UsernameStored(req[w].data.username)
                  THEN req'[w].status = "400 Username already taken"
                  ELSE req'[w].pc = "write"
         /\ (/\ req'[w].route = "update_user" /\ Stepped(w)
             /\ req'[w].status = "400 Email already registered")
            => Changes(req'[w].data, db.users[req'[w].id], "email")
         /\ (/\ req'[w].route = "update_user" /\ Stepped(w)
             /\ req'[w].status = "400 Username already taken")
            => /\ Changes(req'[w].data, db.users[req'[w].id], "username")
               /\ ~(Changes(req'[w].data, db.users[req'[w].id], "email")
                    /\ EmailStored(req'[w].data.email))]_vars

\* An update that supplied the email and the username of the other user was
\* answered with the email conflict.
C11_Witness ==
    /\ req["w1"].route = "update_user"
    /\ req["w1"].status = "400 Email already registered"
    /\ DOMAIN req["w1"].data = {"email", "username"}
    /\ \E j \in DOMAIN db.users \ {req["w1"].id} :
         /\ db.users[j].email = req["w1"].data.email
         /\ db.users[j].username = req["w1"].data.username

ReadRoutes == {"read_user", "read_item"}
DeleteRoutes == {"delete_user", "delete_item"}

\* The record id of table e was deleted and the id has not been assigned since.
Deleted(e, id) == id \in DOMAIN updatesDone[e] /\ updatesDone[e][id] = "deleted"

\* C12: the commit of a delete (of a user or of an item) answers 200 and the
\* record is gone; a get and a delete that name the identifier of a deleted
\* record are answered 404 and leave the store as it is.
C12_GoneAfterDelete ==
    [][\A w \in Workers :
         /\ (req[w].route \in DeleteRoutes /\ req[w].pc = "write" /\ Stepped(w))
            => /\ req'[w].status = "200"
               /\ req[w].id \notin DOMAIN db'[EntityOf(req[w].route)]
         /\ (/\ Accepted(w)
             /\ req'[w].route \in ReadRoutes \cup DeleteRoutes
             /\ Deleted(EntityOf(req'[w].route), req'[w].id))
            => (req'[w].status = "404" /\ db' = db)]_vars

\* A second delete of an item was answered 404.
C12_Witness ==
    /\ req["w1"].route = "delete_item" /\ req["w1"].status = "404"
    /\ Deleted("items", req["w1"].id)
    /\ started = 3

\* C13: the commit of a delete (of a user or of an item) hands back the record
\* with the identifier and the field values it had in the store right before
\* the commit removed it.
C13_DeleteReturnsRemoved ==
    [][\A w \in Workers :
         (req[w].route \in DeleteRoutes /\ req[w].pc = "write" /\ Stepped(w))
         => LET e == EntityOf(req[w].route)
            IN  /\ req[w].id \in DOMAIN db[e]
                /\ req'[w].body = Some([id |-> req[w].id, row |-> db[e][req[w].id]])
                /\ req[w].id \notin DOMAIN db'[e]]_vars

\* The deleted user had been updated: the record handed back carries the
\* update timestamp.
C13_Witness ==
    /\ req["w1"].route = "delete_user" /\ req["w1"].status = "200"
    /\ req["w1"].body # None
    /\ req["w1"].body[1].row.updated_at # None
    /\ req["w1"].id \notin DOMAIN db.users

\* Worker w's last request was the listing route with the arguments data.
Listed(w, route) == req[w].route = route /\ req[w].status = "200"

\* The identifiers of the records of a listing.
IdsOf(records) == { records[i].id : i \in 1 .. Len(records) }

\* C14: when a listing with skip = a and limit = b is followed at once by the
\* same listing with skip = a + b and limit = c, the two answers have no
\* record in common and the first followed by the second is the listing with
\* skip = a and limit = b + c.
C14_PagesConcatenate ==
    [][\A w \in Workers :
         /\ (/\ Listed(w, "read_users") /\ Accepted(w)
             /\ req'[w].route = "read_users"
             /\ ~req[w].data.active_only /\ ~req'[w].data.active_only
             /\ req'[w].data.skip = req[w].data.skip + req[w].data.limit)
            => /\ IdsOf(req[w].body[1]) \cap IdsOf(req'[w].body[1]) = {}
               /\ req[w].body[1] \o req'[w].body[1]
                    = get_multi(db.users, req[w].data.skip,
                                req[w].data.limit + req'[w].data.limit)
         /\ (/\ Listed(w, "read_items") /\ Accepted(w)
             /\ req'[w].route = "read_items"
             /\ req[w].data.search = None /\ req'[w].data.search = None
             /\ ~req[w].data.available_only /\ ~req'[w].data.available_only
             /\ req'[w].data.skip = req[w].data.skip + req[w].data.limit)
            => /\ IdsOf(req[w].body[1]) \cap IdsOf(req'[w].body[1]) = {}
               /\ req[w].body[1] \o req'[w].body[1]
                    = get_multi(db.items, req[w].data.skip,
                                req[w].data.limit + req'[w].data.limit)]_vars

\* The second page of two, of a table of four users.
C14_Witness ==
    /\ Listed("w1", "read_users") /\ started = 2
    /\ ~req["w1"].data.active_only
    /\ req["w1"].data.skip = 2 /\ req["w1"].data.limit = 2
    /\ Len(req["w1"].body[1]) = 2
    /\ Cardinality(DOMAIN db.users) = 4

ListRoutes == {"read_users", "read_items"}

Supplied(search) == search # None /\ search[1] # <<>>

\* C16: the answer of an item listing with a search text is that of
\* search_by_title for the text, whatever the availability flag, so that it
\* has the unavailable items among the first limit items the text matches;
\* without a search text it is that of get_available_items when
\* available_only is set and that of get_multi otherwise.
C16_SearchTakesPrecedence ==
    \A w \in Workers :
        Listed(w, "read_items")
        => LET d == req[w].data
               records == req[w].body[1]
           IN  /\ Supplied(d.search)
                  => /\ records = search_by_title(db.items, d.search[1], d.skip, d.limit)
                     /\ \A i \in DOMAIN db.items :
                          (/\ contains(db.items[i].title, d.search[1])
                           /\ d.skip = 0
                           /\ Cardinality({ j \in DOMAIN db.items : j <= i }) <= d.limit)
                          => i \in IdsOf(records)
               /\ (d.search = None /\ d.available_only)
                  => records = get_available_items(db.items, d.skip, d.limit)
               /\ (d.search = None /\ ~d.available_only)
                  => records = get_multi(db.items, d.skip, d.limit)

\* A search with available_only set was answered with an unavailable item,
\* and left out an available item that the text does not match.
C16_Witness ==
    /\ Listed("w1", "read_items")
    /\ Supplied(req["w1"].data.search) /\ req["w1"].data.available_only
    /\ \E i \in 1 .. Len(req["w1"].body[1]) :
         req["w1"].body[1][i].row.is_available = Some(FALSE)
    /\ \E j \in DOMAIN db.items :
         /\ db.items[j].is_available = Some(TRUE)
         /\ j \notin IdsOf(req["w1"].body[1])

\* Two characters are the same letter of ASCII, in either case.
SameLetter(a, b) ==
    \/ a = b
    \/ {a, b} \in {{"L", "l"}, {"A", "a"}, {"P", "p"}, {"C", "c"}, {"U", "u"}}

\* text is in s from position k + 1 on, letter for letter.
ExactlyAt(text, s, k) == \A j \in 1 .. Len(text) : text[j] = s[k + j]

\* text is in s from position k + 1 on, up to the case of its letters and
\* with _ for any character.
LooselyAt(text, s, k) ==
    \A j \in 1 .. Len(text) : text[j] = "_" \/ SameLetter(text[j], s[k + j])

\* The identifiers of the items whose title has text in it, letter for letter.
TitleHasExactly(text) ==
    { i \in DOMAIN db.items :
        \E k \in 0 .. Len(db.items[i].title[1]) - Len(text) :
            ExactlyAt(text, db.items[i].title[1], k) }

TitleHasLoosely(text) ==
    { i \in DOMAIN db.items :
        \E k \in 0 .. Len(db.items[i].title[1]) - Len(text) :
            LooselyAt(text, db.items[i].title[1], k) }

\* The identifiers a listing answers with when ids are those its filter keeps:
\* those that have at least skip and fewer than skip + limit of them before.
Window(ids, skip, limit) ==
    { i \in ids : LET before == Cardinality({ j \in ids : j < i })
                  IN  skip <= before /\ before < skip + limit }

\* C17 as stated: a search for a text of letters answers with the items whose
\* title has the text in it letter for letter, case included.
C17_SearchExactCase ==
    \A w \in Workers :
        (/\ Listed(w, "read_items") /\ Supplied(req[w].data.search)
         /\ \A j \in 1 .. Len(req[w].data.search[1]) : req[w].data.search[1][j] # "_")
        => IdsOf(req[w].body[1])
             = Window(TitleHasExactly(req[w].data.search[1]),
                      req[w].data.skip, req[w].data.limit)

\* C17 as amended: a search for a text answers with the items whose title has
\* the text in it when the letters of ASCII are compared without regard to
\* case and _ stands for any one character.
C17_SearchIgnoresCase ==
    \A w \in Workers :
        (Listed(w, "read_items") /\ Supplied(req[w].data.search))
        => /\ IdsOf(req[w].body[1])
                = Window(TitleHasLoosely(req[w].data.search[1]),
                         req[w].data.skip, req[w].data.limit)
           /\ \A i \in 1 .. Len(req[w].body[1]) :
                req[w].body[1][i].row = db.items[req[w].body[1][i].id]

\* A search was answered with an item whose title has the text only in
\* another case.
C17_Witness ==
    /\ Listed("w1", "read_items")
    /\ req["w1"].data.search = Some(<<"l", "A">>)
    /\ \E i \in 1 .. Len(req["w1"].body[1]) :
         req["w1"].body[1][i].row.title = Some(<<"L", "a", "p">>)
    /\ \E j \in DOMAIN db.items : j \notin IdsOf(req["w1"].body[1])

\* The identifiers of the rows of a table whose flag column is true.
Flagged(tbl, flag) == { i \in DOMAIN tbl : tbl[i][flag] = Some(TRUE) }

\* The answer has distinct stored records, all of them with the flag true,
\* at most limit of them, and all of those with the flag true but skip.
OnlyFlagged(records, tbl, flag, skip, limit) ==
    LET matching == Cardinality(Flagged(tbl, flag))
        rest     == IF matching > skip THEN matching - skip ELSE 0
    IN  /\ \A i \in 1 .. Len(records) :
             /\ records[i].id \in Flagged(tbl, flag)
             /\ records[i].row = tbl[records[i].id]
        /\ Cardinality(IdsOf(records)) = Len(records)
        /\ Len(records) = IF rest < limit THEN rest ELSE limit
        /\ IdsOf(records) = Window(Flagged(tbl, flag), skip, limit)

\* C18: a listing of users with active_only has only users whose active flag
\* is true and a listing of items with available_only and no search text only
\* items whose available flag is true; the answer has at most limit records,
\* and leaves out skip of the records with the flag true and, beyond limit,
\* the rest.
C18_FilteredListing ==
    \A w \in Workers :
        /\ (Listed(w, "read_users") /\ req[w].data.active_only)
           => OnlyFlagged(req[w].body[1], db.users, "is_active",
                          req[w].data.skip, req[w].data.limit)
        /\ (/\ Listed(w, "read_items") /\ req[w].data.available_only
            /\ req[w].data.search = None)
           => OnlyFlagged(req[w].body[1], db.items, "is_available",
                          req[w].data.skip, req[w].data.limit)

\* The one active user after the first was listed; an inactive user has a
\* smaller identifier.
C18_Witness ==
    /\ Listed("w1", "read_users") /\ req["w1"].data.active_only
    /\ req["w1"].data.skip = 1
    /\ Len(req["w1"].body[1]) = 1
    /\ \E i \in DOMAIN db.users :
         /\ db.users[i].is_active = Some(FALSE)
         /\ i < req["w1"].body[1][1].id

\* C19: a create-item request whose price is 0 or less is answered 422, a
\* validation error, and the store is as before.
C19_NonPositivePriceRejected ==
    [][\A w \in Workers :
         (/\ Accepted(w)
          /\ req'[w].route = "create_item"
          /\ req'[w].data.price # None
          /\ req'[w].data.price[1] <= 0)
         => (req'[w].status = "422" /\ req'[w].pc = "done" /\ db' = db)]_vars

\* A create with the price 0 was turned down while an item was stored.
C19_Witness ==
    /\ req["w1"].route = "create_item" /\ req["w1"].status = "422"
    /\ req["w1"].data.price = Some(0)
    /\ db.items # <<>>

\* C20: in every state every stored item has a price, an integer greater
\* than 0.
C20_PriceAlwaysPositive ==
    \A id \in DOMAIN db.items :
        /\ db.items[id].price # None
        /\ db.items[id].price[1] \in Int
        /\ db.items[id].price[1] > 0

\* An update that supplied a null price was turned down by the store, one
\* that supplied another price had gone through before, and the item has the
\* price of the latter.
C20_Witness ==
    /\ req["w1"].route = "update_item" /\ req["w1"].status = "500"
    /\ "price" \in DOMAIN req["w1"].data /\ req["w1"].data.price = None
    /\ req["w1"].id \in DOMAIN db.items
    /\ db.items[req["w1"].id].updated_at # None
    /\ db.items[req["w1"].id].price # None

\* C21: in every state create_engine has run at most once and sessionmaker
\* at most once in the process, and any two threads that were handed an
\* engine, or a factory, were handed the same one.
C21_InitializedOnce ==
    /\ gateway.engines <= 1
    /\ gateway.factories <= 1
    /\ \A w, v \in Workers :
         /\ (gateway.thread[w].engine # 0 /\ gateway.thread[v].engine # 0)
            => gateway.thread[w].engine = gateway.thread[v].engine
         /\ (gateway.thread[w].factory # 0 /\ gateway.thread[v].factory # 0)
            => gateway.thread[w].factory = gateway.thread[v].factory

\* C22: a request that is in flight holds the session get_db opened for it,
\* and a request that has ended, with a response of any status or with an
\* exception, has its session closed: when no request is in flight no session
\* is open.
C22_SessionClosedOnExit ==
    \A w \in Workers :
        /\ req[w].pc # "done" => req[w].session = "open"
        /\ req[w].pc = "done" => req[w].session # "open"

\* One request ended with an unexpected storage failure and another with
\* NotFound, and both sessions are closed.
C22_Witness ==
    /\ req["w1"].pc = "done" /\ req["w1"].status = "404"
    /\ req["w2"].pc = "done" /\ req["w2"].status = "500"
    /\ \A w \in Workers : req[w].session = "closed"

\* C23: a create never assigns an identifier that an earlier create of the
\* same entity type had assigned, whether or not that record is still stored.
C23_IdNeverReused ==
    [][\A e \in Entities :
         \A id \in DOMAIN db'[e] \ DOMAIN db[e] : id \notin DOMAIN updatesDone[e]]_vars

\* C24: no step of an update request, whatever its body contains, adds or
\* removes an identifier of a table or changes the created_at of a stored
\* record, and the record an update returns has the id that was asked for and
\* the created_at the record was stored with.
C24_UpdateKeepsIdAndCreatedAt ==
    [][\A w \in Workers :
         (req[w].route \in UpdateRoutes /\ req[w].pc # "done" /\ Stepped(w))
         => /\ \A e \in Entities :
                 /\ DOMAIN db'[e] = DOMAIN db[e]
                 /\ \A id \in DOMAIN db[e] : db'[e][id].created_at = db[e][id].created_at
            /\ req'[w].status = "200"
                 => /\ req'[w].body[1].id = req[w].id
                    /\ req'[w].body[1].row.created_at
                         = db[EntityOf(req[w].route)][req[w].id].created_at]_vars

\* An update whose body named another id and another created_at has changed
\* a field of record 1 and answered 200.
C24_Witness ==
    \E w \in Workers :
        /\ req[w].route \in UpdateRoutes /\ req[w].status = "200" /\ req[w].id = 1
        /\ {"id", "created_at"} \subseteq DOMAIN req[w].data
        /\ req[w].data.id = Some(2) /\ req[w].data.created_at = Some(1)
        /\ req[w].body[1].row.created_at = Some(0)
        /\ req[w].body[1].row.updated_at # None

\* C25: a start of the process, which runs init_db on the store the last
\* process left, leaves every table with the records it had, and running the
\* schema initialization once more changes nothing; a get served after the
\* restart, of a record whose create answered 201 in an earlier run of the
\* process, answers 200 with the record the create returned.
C25_InitSchemaKeepsData ==
    [][/\ gateway'.starts # gateway.starts
            => /\ db' = db
               /\ create_all(db') = db'
       /\ \A v \in Workers :
            (Accepted(v) /\ req'[v].route \in ReadRoutes)
            => \A w \in Workers \ {v} :
                 (/\ req[w].route \in CreateRoutes /\ req[w].status = "201"
                  /\ EntityOf(req[w].route) = EntityOf(req'[v].route)
                  /\ req[w].id = req'[v].id
                  /\ req[w].run < req'[v].run)
                 => (req'[v].status = "200" /\ req'[v].body = req[w].body)]_vars

\* A user created in the first run of the process was read in the second.
C25_Witness ==
    /\ req["w1"].route = "create_user" /\ req["w1"].status = "201" /\ req["w1"].run = 1
    /\ req["w2"].route = "read_user" /\ req["w2"].status = "200" /\ req["w2"].run = 2
    /\ req["w2"].id = req["w1"].id
    /\ req["w2"].body = req["w1"].body
    /\ gateway.starts = 2

\* C26: a delete request removes at most the record it names.  Its lookup
\* writes nothing, and answers 404 when no record has the identifier; its
\* commit leaves every other record of the table, and every record of the
\* other table, stored as it was, and adds none.
C26_DeleteOnlyThatRecord ==
    [][\A w \in Workers :
         /\ (Accepted(w) /\ req'[w].route \in DeleteRoutes)
            => /\ db' = db
               /\ req'[w].id \notin DOMAIN db[EntityOf(req'[w].route)]
                    => req'[w].status = "404"
         /\ (req[w].route \in DeleteRoutes /\ req[w].pc = "write" /\ Stepped(w))
            => \A e \in Entities :
                 /\ DOMAIN db'[e] \subseteq DOMAIN db[e]
                 /\ \A id \in DOMAIN db[e] :
                      (e # EntityOf(req[w].route) \/ id # req[w].id)
                      => (id \in DOMAIN db'[e] /\ db'[e][id] = db[e][id])]_vars

\* Item 1 of two items was deleted and item 2 is stored.
C26_Witness ==
    /\ req["w1"].route = "delete_item" /\ req["w1"].status = "200" /\ req["w1"].id = 1
    /\ DOMAIN db.items = {2}

UpdateUserRefused == {"404", "400 Email already registered", "400 Username already taken"}

\* C27: of the steps of an update-user request only the commit of its unit
\* of work changes the store, and a request that is answered NotFound or
\* Conflict ends before that commit: every stored user, the target and its
\* updated_at included, is as it was when the request arrived.
C27_FailedUpdateChangesNothing ==
    [][\A w \in Workers :
         (req'[w].route = "update_user" /\ Stepped(w))
         => /\ req'[w].pc # "refresh" => db' = db
            /\ req'[w].status \in UpdateUserRefused
                 => /\ db' = db
                    /\ Accepted(w) \/ req[w].pc \in {"check_email", "check_username"}]_vars

\* An update of two fields was refused for its username, and the full name
\* it supplied is not the stored one.
C27_Witness ==
    \E w \in Workers :
        /\ req[w].route = "update_user" /\ req[w].status = "400 Username already taken"
        /\ DOMAIN req[w].data = {"username", "full_name"}
        /\ req[w].id \in DOMAIN db.users
        /\ db.users[req[w].id].full_name # req[w].data.full_name
        /\ db.users[req[w].id].updated_at = None

\* C28: no step of an update request, whenever it read its target, stores a
\* record under an identifier the table does not have; so once a delete has
\* committed, the record stays absent through every step of the updates that
\* run beside it, and a get that names it is answered 404.
C28_UpdateNeverResurrects ==
    [][/\ \A w \in Workers :
            /\ (req[w].route \in UpdateRoutes /\ req[w].pc # "done" /\ Stepped(w))
               => \A e \in Entities : DOMAIN db'[e] \subseteq DOMAIN db[e]
            /\ (Accepted(w) /\ req'[w].route \in ReadRoutes
                /\ Deleted(EntityOf(req'[w].route), req'[w].id))
               => req'[w].status = "404"
       /\ \A e \in Entities : \A id \in DOMAIN updatesDone'[e] :
            updatesDone'[e][id] = "deleted" => crud_get(db'[e], id) = None]_vars

\* An update that had read item 1 met the commit of a delete of item 1: its
\* own commit failed, and the item is absent.
C28_Witness ==
    /\ req["w1"].route = "update_item" /\ req["w1"].id = 1 /\ req["w1"].status = "500"
    /\ req["w2"].route = "delete_item" /\ req["w2"].id = 1 /\ req["w2"].status = "200"
    /\ Deleted("items", 1)
    /\ crud_get(db.items, 1) = None

\* The update request of worker v has committed the fields of its body on
\* record id of table e, and they are stored.
UpdateInEffect(v, e, id) ==
    /\ req[v].route \in UpdateRoutes /\ EntityOf(req[v].route) = e /\ req[v].id = id
    /\ req[v].pc = "refresh" \/ req[v].status = "200"
    /\ id \in DOMAIN db[e]
    /\ \A f \in DOMAIN req[v].data : db[e][id][f] = req[v].data[f]

\* C29: when an update commits on a record on which another update, of
\* other fields, is in effect, and nothing but that other update has changed
\* the record since this one read it, then the record has the fields of both
\* bodies afterwards.
C29_DisjointUpdatesBothApply ==
    [][\A w \in Workers : \A v \in Workers \ {w} :
         LET e  == EntityOf(req[w].route)
             id == req[w].id
         IN  (/\ req[w].route \in UpdateRoutes
              /\ req[w].pc = "write" /\ req'[w].pc = "refresh"
              /\ UpdateInEffect(v, e, id)
              /\ DOMAIN req[v].data \cap DOMAIN req[w].data = {}
              /\ \A f \in DOMAIN db[e][id] \ (DOMAIN req[v].data \cup {"updated_at"}) :
                   db[e][id][f] = req[w].obj[1].row[f])
             => /\ id \in DOMAIN db'[e]
                /\ \A f \in DOMAIN req[v].data : db'[e][id][f] = req[v].data[f]
                /\ \A f \in DOMAIN req[w].data : db'[e][id][f] = req[w].data[f]]_vars

\* Two updates of user 1 that both read it before either committed: w1 set
\* the full name, w2 the email, and the record has both.
C29_Witness ==
    /\ req["w1"].route = "update_user" /\ req["w1"].id = 1
    /\ req["w1"].status = "200" /\ DOMAIN req["w1"].data = {"full_name"}
    /\ req["w2"].route = "update_user" /\ req["w2"].id = 1
    /\ req["w2"].pc = "refresh" /\ DOMAIN req["w2"].data = {"email"}
    /\ req["w2"].obj[1].row.full_name # req["w1"].data.full_name
    /\ req["w2"].obj[1].row.email # req["w2"].data.email
    /\ db.users[1].full_name = req["w1"].data.full_name
    /\ db.users[1].email = req["w2"].data.email

\* C30: an item listing whose search text is the empty string is answered as
\* the listing with the same skip, limit and availability flag and no search
\* text: by get_available_items when available_only is set, else by get_multi.
C30_EmptySearchIsNoSearch ==
    \A w \in Workers :
        (Listed(w, "read_items") /\ req[w].data.search = Some(<<>>))
        => LET d == req[w].data
           IN  req[w].body[1] =
                 IF d.available_only THEN get_available_items(db.items, d.skip, d.limit)
                 ELSE get_multi(db.items, d.skip, d.limit)

\* A listing with an empty search text and available_only set gave an item
\* and left out item 1, which is not available.
C30_Witness ==
    /\ Listed("w1", "read_items")
    /\ req["w1"].data.search = Some(<<>>) /\ req["w1"].data.available_only
    /\ req["w1"].data.skip = 0
    /\ Len(req["w1"].body[1]) >= 1
    /\ 1 \in DOMAIN db.items /\ db.items[1].is_available = Some(FALSE)
    /\ 1 \notin IdsOf(req["w1"].body[1])

====
